---- MODULE Spec2Model ----
(***************************************************************************)
(* Model of compare_svn_xls.py: the DiffViewer session (revision pair,     *)
(* sheet snapshots, Diff Index, navigation cursor, viewport) driven by the *)
(* key commands of DiffViewer.run.                                         *)
(*                                                                         *)
(* Rows, columns, sheet indexes and Diff Index offsets are 0-based as in   *)
(* the Python source; TLA+ sequences are 1-based, so element i of a Python *)
(* list l is l[i + 1] here.                                                *)
(***************************************************************************)
EXTENDS Integers, Sequences, FiniteSets, TLC

\* ------------------------------------------------------------------ bounds
\* largest number of revisions `svn log` returns in the model
MaxRevs == 3

\* ------------------------------------------------------- the environment
\* Sheet names are one-letter strings; Python sorts them lexicographically.
NameRank == [A |-> 1, B |-> 2, C |-> 3]

\* What XLSReader.read_file returns for the files held by the repository:
\* a dict from sheet name to a ragged list of rows of cell texts.  The empty
\* dict is what read_file returns for a file it cannot read.
Workbooks ==
  << [A |-> << <<"a", "b">>, <<"c", "d">> >>],
     [A |-> << <<"a">>, <<"c", "y", "z">> >>,
      B |-> << >>,
      C |-> << <<"q", "">> >>],
     [A |-> << <<"a", "x">>, <<"c", "d">> >>,
      B |-> << <<"p">>, << >> >>],
     << >> >>

NumWorkbooks == Len(Workbooks)

\* The repositories of the model: a history of up to MaxRevs revisions whose
\* files are consecutive workbooks of the list above, from any starting one.

VARIABLES
  svn_log,            \* environment: what `svn log` lists, newest first
  svn_files,          \* environment: revision number -> number of its workbook
  tmp_left,           \* environment: revisions whose temp file, exported by
                      \* the load_data call of the last command, still exists
  pc,                 \* position of DiffViewer.run
  key,                \* the key the command loop handled last
  load_ret,           \* outcome of the load_data call of the last command
  revisions,
  current_rev_idx,
  left_data,
  right_data,
  sheet_names,
  current_sheet_idx,
  offset_x,
  offset_y,
  diff_positions,
  current_diff_idx,
  loaded_revs,        \* history: the revisions the loaded snapshots came from
  before,             \* history: cursor, viewport and sheet index as they
                      \* were when the last command was read
  round_trip,         \* history: the offset a next() from the unset cursor
                      \* reached, while only a prev() has followed it
  nav_start,          \* history: cursor offset where a run of next() began
  nav_visited,        \* history: offsets reached by that run of next() calls
  tab_run             \* history: the sheet index a run of consecutive sheet
                      \* switches began at, then the indexes it reached

vars == <<svn_log, svn_files, tmp_left, pc, key, load_ret, revisions,
          current_rev_idx, left_data, right_data, sheet_names,
          current_sheet_idx, offset_x, offset_y, diff_positions,
          current_diff_idx, loaded_revs, before, round_trip, nav_start,
          nav_visited, tab_run>>

env == <<svn_log, svn_files>>

\* ------------------------------------------------------ Python primitives
Max2(a, b) == IF a >= b THEN a ELSE b

Min2(a, b) == IF a <= b THEN a ELSE b

MaxOf(S) == CHOOSE m \in S : \A x \in S : x <= m

\* dict.get(name, [])
DictGet(d, name) == IF name \in DOMAIN d THEN d[name] ELSE << >>

\* list(set(...)) followed by list.sort()
RECURSIVE SortNames(_)
SortNames(S) ==
  IF S = {} THEN << >>
  ELSE LET m == CHOOSE x \in S : \A y \in S : NameRank[x] <= NameRank[y]
       IN  <<m>> \o SortNames(S \ {m})

\* l[i] for a Python list of length n is defined for -n <= i < n
PyIndexOK(i, n) == -n <= i /\ i < n

PyIndex(l, i) == IF i >= 0 THEN l[i + 1] ELSE l[Len(l) + i + 1]

\* ------------------------------------------------- load_data: alignment
RowLens(data) == {Len(data[r]) : r \in 1..Len(data)} \cup {0}

\* a lookup that renders an absent position as the text of Python's None
RawValue_NoneText(data, row_idx, col_idx) ==
  IF row_idx < Len(data) /\ col_idx < Len(data[row_idx + 1])
  THEN data[row_idx + 1][col_idx + 1]
  ELSE "None"

RawValue(data, row_idx, col_idx) ==
  IF row_idx < Len(data) /\ col_idx < Len(data[row_idx + 1])
  THEN data[row_idx + 1][col_idx + 1]
  ELSE ""

\* a comparison that takes an empty text on either side as "no change"
CellChanged_IgnoreEmpty(val_a, val_b) == val_a # val_b /\ val_a # "" /\ val_b # ""

CellChanged(val_a, val_b) == val_a # val_b

\* an alignment that sizes each side by its own longest row
AlignSheet_OwnCols(data_own, data_a, data_b) ==
  LET max_rows == Max2(Len(data_a), Len(data_b))
      max_cols == MaxOf(RowLens(data_own))
  IN  [r \in 1..max_rows |->
        [c \in 1..max_cols |->
          [value   |-> RawValue(data_own, r - 1, c - 1),
           changed |-> CellChanged(RawValue(data_a, r - 1, c - 1),
                                   RawValue(data_b, r - 1, c - 1))]]]

\* the aligned sheet of one side: this side's values, flags from both sides
AlignSheet(data_own, data_a, data_b) ==
  LET max_rows == Max2(Len(data_a), Len(data_b))
      max_cols == Max2(MaxOf(RowLens(data_a)), MaxOf(RowLens(data_b)))
  IN  [r \in 1..max_rows |->
        [c \in 1..max_cols |->
          [value   |-> RawValue(data_own, r - 1, c - 1),
           changed |-> CellChanged(RawValue(data_a, r - 1, c - 1),
                                   RawValue(data_b, r - 1, c - 1))]]]

\* ------------------------------------------------ update_diff_positions
RECURSIVE ScanRow(_, _, _)
ScanRow(row, row_idx, col_idx) ==
  IF col_idx >= Len(row) THEN << >>
  ELSE (IF row[col_idx + 1].changed THEN << <<row_idx, col_idx>> >> ELSE << >>)
       \o ScanRow(row, row_idx, col_idx + 1)

RECURSIVE ScanSheet(_, _)
ScanSheet(sheet, row_idx) ==
  IF row_idx >= Len(sheet) THEN << >>
  ELSE ScanRow(sheet[row_idx + 1], row_idx, 0) \o ScanSheet(sheet, row_idx + 1)

\* update_diff_positions without its last line: the cursor is kept
UpdateDiffPositions_NoReset(names, sheet_idx, left, diff_idx) ==
  IF names = << >> \/ ~PyIndexOK(sheet_idx, Len(names))
  THEN [raised |-> names # << >>, diff_positions |-> << >>,
        current_diff_idx |-> diff_idx]
  ELSE [raised |-> FALSE,
        diff_positions |-> ScanSheet(DictGet(left, PyIndex(names, sheet_idx)), 0),
        current_diff_idx |-> diff_idx]

\* The fields update_diff_positions leaves behind; raised = IndexError at
\* self.sheet_names[self.current_sheet_idx], after the list was emptied.
UpdateDiffPositions(names, sheet_idx, left, diff_idx) ==
  IF names = << >>
  THEN [raised |-> FALSE, diff_positions |-> << >>, current_diff_idx |-> diff_idx]
  ELSE IF ~PyIndexOK(sheet_idx, Len(names))
  THEN [raised |-> TRUE, diff_positions |-> << >>, current_diff_idx |-> diff_idx]
  ELSE [raised |-> FALSE,
        diff_positions |-> ScanSheet(DictGet(left, PyIndex(names, sheet_idx)), 0),
        current_diff_idx |-> -1]

\* ------------------------------------------------------------- load_data
\* XLSReader.read_file on the exported file of a revision
ReadFile(rev) == Workbooks[svn_files[rev]]

\* What one load_data call leaves behind.  ok_a and ok_b say whether the two
\* `svn export` calls succeed.  ret is "True" or "False" as returned, or
\* "IndexError" when update_diff_positions raises inside the call.
LoadKeep(ret, tmp) ==
  [ret |-> ret, tmp_left |-> tmp, sheet_names |-> sheet_names,
   left_data |-> left_data, right_data |-> right_data,
   diff_positions |-> diff_positions, current_diff_idx |-> current_diff_idx,
   loaded_revs |-> loaded_revs]

LoadData(revs, rev_a_idx, rev_b_idx, ok_a, ok_b) ==
  IF rev_a_idx >= Len(revs) \/ rev_b_idx >= Len(revs)
  THEN LoadKeep("False", {})
  ELSE
    LET rev_a == revs[rev_a_idx + 1]
        rev_b == revs[rev_b_idx + 1]
        exported == (IF ok_a THEN {rev_a} ELSE {}) \cup (IF ok_b THEN {rev_b} ELSE {})
    IN
    IF ~ok_a \/ ~ok_b
    THEN LoadKeep("False", exported)
    ELSE
      LET sheets_a == ReadFile(rev_a)
          sheets_b == ReadFile(rev_b)
          removed  == exported \ {rev_a, rev_b}
      IN
      IF DOMAIN sheets_a = {} \/ DOMAIN sheets_b = {}
      THEN LoadKeep("False", removed)
      ELSE
        LET names == SortNames(DOMAIN sheets_a \cup DOMAIN sheets_b)
            left  == [n \in DOMAIN sheets_a \cup DOMAIN sheets_b |->
                        AlignSheet(DictGet(sheets_a, n),
                                   DictGet(sheets_a, n), DictGet(sheets_b, n))]
            right == [n \in DOMAIN sheets_a \cup DOMAIN sheets_b |->
                        AlignSheet(DictGet(sheets_b, n),
                                   DictGet(sheets_a, n), DictGet(sheets_b, n))]
            upd   == UpdateDiffPositions(names, current_sheet_idx, left,
                                         current_diff_idx)
        IN  [ret |-> IF upd.raised THEN "IndexError" ELSE "True",
             tmp_left |-> removed, sheet_names |-> names,
             left_data |-> left, right_data |-> right,
             diff_positions |-> upd.diff_positions,
             current_diff_idx |-> upd.current_diff_idx,
             loaded_revs |-> <<rev_a, rev_b>>]

\* ------------------------------------------- goto_next_diff, goto_prev_diff
\* the forward test with a strict column comparison
NextResumeTest_Strict(row, col, oy, ox) == row > oy \/ (row = oy /\ col > ox)

\* the viewport test of the forward scan
NextResumeTest(row, col, oy, ox) == row > oy \/ (row = oy /\ col >= ox)

\* the backward test with an inclusive column comparison
PrevResumeTest_Inclusive(row, col, oy, ox) == row < oy \/ (row = oy /\ col <= ox)

\* the viewport test of the backward scan
PrevResumeTest(row, col, oy, ox) == row < oy \/ (row = oy /\ col < ox)

\* for idx, (row, col) in enumerate(diff_positions): first hit, or -1
RECURSIVE ScanForward(_, _, _, _)
ScanForward(dp, idx, oy, ox) ==
  IF idx >= Len(dp) THEN -1
  ELSE IF NextResumeTest(dp[idx + 1][1], dp[idx + 1][2], oy, ox) THEN idx
  ELSE ScanForward(dp, idx + 1, oy, ox)

\* for idx in range(len - 1, -1, -1): first hit, or -1
RECURSIVE ScanBackward(_, _, _, _)
ScanBackward(dp, idx, oy, ox) ==
  IF idx <= -1 THEN -1
  ELSE IF PrevResumeTest(dp[idx + 1][1], dp[idx + 1][2], oy, ox) THEN idx
  ELSE ScanBackward(dp, idx - 1, oy, ox)

NextFromUnset(dp, oy, ox) ==
  LET found == ScanForward(dp, 0, oy, ox)
  IN  IF found = -1 THEN 0 ELSE found

PrevFromUnset(dp, oy, ox) ==
  LET found == ScanBackward(dp, Len(dp) - 1, oy, ox)
  IN  IF found = -1 THEN Len(dp) - 1 ELSE found

\* next() that stops at the last offset instead of wrapping
\* a forward step that applies the viewport test again instead of using idx
NextFromAt_Resume(idx, n) == NextFromUnset(diff_positions, offset_y, offset_x)

NextFromAt_NoWrap(idx, n) == IF idx + 1 >= n THEN idx ELSE idx + 1

NextFromAt(idx, n) == (idx + 1) % n

\* prev() that stops at offset 0 instead of wrapping
PrevFromAt_NoWrap(idx, n) == IF idx = 0 THEN 0 ELSE idx - 1

\* prev() that keeps the cursor where it is
PrevFromAt_Stay(idx, n) == idx

PrevFromAt(idx, n) == (idx - 1) % n

\* the cursor offset goto_next_diff selects (diff_positions is not empty)
GotoNextIdx(dp, idx, oy, ox) ==
  IF idx = -1 THEN NextFromUnset(dp, oy, ox) ELSE NextFromAt(idx, Len(dp))

\* the cursor offset goto_prev_diff selects (diff_positions is not empty)
GotoPrevIdx(dp, idx, oy, ox) ==
  IF idx = -1 THEN PrevFromUnset(dp, oy, ox) ELSE PrevFromAt(idx, Len(dp))

\* a jump that stores the row in offset_x and the column in offset_y
JumpViewport_Swapped(dp, idx) == <<dp[idx + 1][2], dp[idx + 1][1]>>

\* the viewport (offset_y, offset_x) a jump leaves: the position at idx
JumpViewport(dp, idx) == dp[idx + 1]

\* ----------------------------------------------------------- draw_screen
\* Whether draw_screen raises IndexError.  small: the terminal is below
\* 10 x 40 and nothing of the data is read.  Otherwise at least one screen
\* row and one screen column are drawn, starting at (offset_y, offset_x).
DrawRaises(names, sheet_idx, left, rev_idx, revs, oy, ox, small) ==
  /\ ~small
  /\ names # << >>
  /\ \/ ~PyIndexOK(sheet_idx, Len(names))
     \/ ~PyIndexOK(rev_idx, Len(revs))
     \/ ~PyIndexOK(rev_idx + 1, Len(revs))
     \/ LET left_sheet == left[PyIndex(names, sheet_idx)]
        IN  /\ oy < Len(left_sheet)
            /\ \/ ~PyIndexOK(oy, Len(left_sheet))
               \/ LET row == PyIndex(left_sheet, oy)
                  IN  ox < Len(row) /\ ~PyIndexOK(ox, Len(row))

\* Whether the draw at the top of the command loop returns ("loop") or
\* raises ("crashed"); a terminal below 10 x 40 never reads the data.
DrawOutcomes(names, sheet_idx, left, rev_idx, revs, oy, ox) ==
  IF DrawRaises(names, sheet_idx, left, rev_idx, revs, oy, ox, FALSE)
  THEN {"loop", "crashed"}
  ELSE {"loop"}

\* ------------------------------------------------------------------ Init
\* DiffViewer.__init__, with the repository the session will read
Init ==
  /\ \E n \in 0..MaxRevs, shift \in 0..(NumWorkbooks - 1) :
       /\ svn_log = [i \in 1..n |-> n - i + 1]
       /\ svn_files = [rev \in 1..n |-> ((n - rev + shift) % NumWorkbooks) + 1]
  /\ tmp_left = {}
  /\ pc = "start"
  /\ key = ""
  /\ load_ret = "none"
  /\ revisions = << >>
  /\ current_rev_idx = 0
  /\ left_data = << >>
  /\ right_data = << >>
  /\ sheet_names = << >>
  /\ current_sheet_idx = 0
  /\ offset_x = 0
  /\ offset_y = 0
  /\ diff_positions = << >>
  /\ current_diff_idx = -1
  /\ loaded_revs = << >>
  /\ before = [current_diff_idx |-> -1, offset_y |-> 0, offset_x |-> 0,
               current_sheet_idx |-> 0]
  /\ round_trip = -1
  /\ nav_start = -1
  /\ nav_visited = << >>
  /\ tab_run = << >>

\* the view a command starts from
Remember ==
  before' = [current_diff_idx |-> current_diff_idx, offset_y |-> offset_y,
             offset_x |-> offset_x, current_sheet_idx |-> current_sheet_idx]

NavReset ==
  /\ Remember
  /\ round_trip' = -1
  /\ nav_start' = -1
  /\ nav_visited' = << >>
  /\ tab_run' = << >>

Redraw ==
  pc' \in DrawOutcomes(sheet_names', current_sheet_idx', left_data',
                       current_rev_idx', revisions', offset_y', offset_x')

\* run, up to the first draw: load_revisions and load_data(0, 1)
Start ==
  /\ pc = "start"
  /\ revisions' = svn_log
  /\ key' = ""
  /\ NavReset
  /\ UNCHANGED <<env, current_rev_idx, current_sheet_idx, offset_x, offset_y>>
  /\ IF Len(svn_log) < 2
     THEN /\ pc' = "fatal"
          /\ load_ret' = "none"
          /\ tmp_left' = {}
          /\ UNCHANGED <<left_data, right_data, sheet_names,
                         diff_positions, current_diff_idx, loaded_revs>>
     ELSE \E ok_a \in BOOLEAN, ok_b \in BOOLEAN :
            LET load == LoadData(svn_log, 0, 1, ok_a, ok_b)
            IN  /\ load_ret' = load.ret
                /\ tmp_left' = load.tmp_left
                /\ sheet_names' = load.sheet_names
                /\ left_data' = load.left_data
                /\ right_data' = load.right_data
                /\ diff_positions' = load.diff_positions
                /\ current_diff_idx' = load.current_diff_idx
                /\ loaded_revs' = load.loaded_revs
                /\ IF load.ret = "True" THEN Redraw
                   ELSE IF load.ret = "False" THEN pc' = "fatal"
                   ELSE pc' = "crashed"

\* ------------------------------------------------------- the command loop
CurrentSheet == left_data[PyIndex(sheet_names, current_sheet_idx)]

session == <<revisions, current_rev_idx, left_data, right_data, sheet_names,
             current_sheet_idx, diff_positions, current_diff_idx, loaded_revs>>

\* 'q' / 'Q'
KeyQuit ==
  /\ pc = "loop"
  /\ key' = "q"
  /\ pc' = "done"
  /\ load_ret' = "none"
  /\ NavReset
  /\ tmp_left' = {}
  /\ UNCHANGED <<env, session, offset_x, offset_y>>

\* the new offset_y of KEY_UP
MoveUp(oy) == Max2(0, oy - 1)

\* the new offset_y of KEY_DOWN
MoveDown(oy, max_rows) == Min2(max_rows - 1, oy + 1)

\* the new offset_x of KEY_LEFT
MoveLeft(ox) == Max2(0, ox - 1)

\* the new offset_x of KEY_RIGHT
MoveRight(ox, max_cols) == Min2(max_cols - 1, ox + 1)

\* a viewport move leaves everything but the viewport alone
MoveFrame(k) ==
  /\ pc = "loop"
  /\ key' = k
  /\ load_ret' = "none"
  /\ Remember
  /\ round_trip' = -1
  /\ tab_run' = << >>
  /\ tmp_left' = {}
  /\ UNCHANGED <<env, session, nav_start, nav_visited>>

KeyUp ==
  /\ MoveFrame("UP")
  /\ offset_y' = MoveUp(offset_y)
  /\ offset_x' = offset_x
  /\ Redraw

KeyDown ==
  /\ MoveFrame("DOWN")
  /\ offset_y' = MoveDown(offset_y, Len(CurrentSheet))
  /\ offset_x' = offset_x
  /\ Redraw

KeyLeft ==
  /\ MoveFrame("LEFT")
  /\ offset_x' = MoveLeft(offset_x)
  /\ offset_y' = offset_y
  /\ Redraw

KeyRight ==
  /\ MoveFrame("RIGHT")
  /\ offset_x' = MoveRight(offset_x,
                   IF CurrentSheet # << >> THEN Len(CurrentSheet[1]) ELSE 0)
  /\ offset_y' = offset_y
  /\ Redraw

\* a switch that stops at the last sheet instead of wrapping
SwitchSheetIdx_NoWrap(sheet_idx, n) ==
  IF sheet_idx + 1 >= n THEN sheet_idx ELSE sheet_idx + 1

\* the sheet index Tab / 's' selects
SwitchSheetIdx(sheet_idx, n) == (sheet_idx + 1) % n

\* Tab / 's' / 'S'
KeyTab ==
  /\ pc = "loop"
  /\ key' = "TAB"
  /\ load_ret' = "none"
  /\ Remember
  /\ round_trip' = -1
  /\ nav_start' = -1
  /\ nav_visited' = << >>
  /\ current_sheet_idx' = SwitchSheetIdx(current_sheet_idx, Len(sheet_names))
  /\ tab_run' = IF tab_run = << >> \/ Len(tab_run) > Len(sheet_names)
                THEN <<current_sheet_idx, current_sheet_idx'>>
                ELSE Append(tab_run, current_sheet_idx')
  /\ offset_x' = 0
  /\ offset_y' = 0
  /\ tmp_left' = {}
  /\ UNCHANGED <<env, revisions, current_rev_idx, left_data,
                 right_data, sheet_names, loaded_revs>>
  /\ LET upd == UpdateDiffPositions(sheet_names, current_sheet_idx', left_data,
                                    current_diff_idx)
     IN  /\ diff_positions' = upd.diff_positions
         /\ current_diff_idx' = upd.current_diff_idx
         /\ IF upd.raised THEN pc' = "crashed" ELSE Redraw

\* ']' : goto_next_diff
\* an early return that puts the cursor on offset 0 of the empty index
EmptyJump_First(idx, oy, ox) == <<0, oy, ox>>

\* the early return of goto_next_diff / goto_prev_diff on an empty
\* diff_positions: (current_diff_idx, offset_y, offset_x) stay as they are
EmptyJump(idx, oy, ox) == <<idx, oy, ox>>

KeyNext ==
  /\ pc = "loop"
  /\ key' = "]"
  /\ load_ret' = "none"
  /\ IF diff_positions = << >>
     THEN /\ NavReset
          /\ current_diff_idx' = EmptyJump(current_diff_idx, offset_y, offset_x)[1]
          /\ offset_y' = EmptyJump(current_diff_idx, offset_y, offset_x)[2]
          /\ offset_x' = EmptyJump(current_diff_idx, offset_y, offset_x)[3]
     ELSE /\ current_diff_idx' = GotoNextIdx(diff_positions, current_diff_idx,
                                             offset_y, offset_x)
          /\ offset_y' = JumpViewport(diff_positions, current_diff_idx')[1]
          /\ offset_x' = JumpViewport(diff_positions, current_diff_idx')[2]
          /\ Remember
          /\ tab_run' = << >>
          /\ round_trip' = IF current_diff_idx = -1 THEN current_diff_idx' ELSE -1
          /\ IF current_diff_idx = -1
             THEN nav_start' = -1 /\ nav_visited' = << >>
             ELSE IF nav_start = -1 \/ Len(nav_visited) >= Len(diff_positions)
             THEN /\ nav_start' = current_diff_idx
                  /\ nav_visited' = <<current_diff_idx'>>
             ELSE /\ nav_start' = nav_start
                  /\ nav_visited' = Append(nav_visited, current_diff_idx')
  /\ tmp_left' = {}
  /\ UNCHANGED <<env, revisions, current_rev_idx, left_data,
                 right_data, sheet_names, current_sheet_idx, diff_positions,
                 loaded_revs>>
  /\ Redraw

\* '[' : goto_prev_diff
KeyPrev ==
  /\ pc = "loop"
  /\ key' = "["
  /\ load_ret' = "none"
  /\ nav_start' = -1
  /\ nav_visited' = << >>
  /\ Remember
  /\ tab_run' = << >>
  /\ round_trip' = IF key = "]" THEN round_trip ELSE -1
  /\ IF diff_positions = << >>
     THEN /\ current_diff_idx' = EmptyJump(current_diff_idx, offset_y, offset_x)[1]
          /\ offset_y' = EmptyJump(current_diff_idx, offset_y, offset_x)[2]
          /\ offset_x' = EmptyJump(current_diff_idx, offset_y, offset_x)[3]
     ELSE /\ current_diff_idx' = GotoPrevIdx(diff_positions, current_diff_idx,
                                             offset_y, offset_x)
          /\ offset_y' = JumpViewport(diff_positions, current_diff_idx')[1]
          /\ offset_x' = JumpViewport(diff_positions, current_diff_idx')[2]
  /\ tmp_left' = {}
  /\ UNCHANGED <<env, revisions, current_rev_idx, left_data,
                 right_data, sheet_names, current_sheet_idx, diff_positions,
                 loaded_revs>>
  /\ Redraw

\* the branch without its reset of the viewport
AfterLoad_KeepViewport(load) ==
  LET upd == UpdateDiffPositions(load.sheet_names, 0, load.left_data,
                                 load.current_diff_idx)
  IN  [offset_x |-> offset_x, offset_y |-> offset_y, current_sheet_idx |-> 0,
       raised |-> upd.raised,
       diff_positions |-> upd.diff_positions,
       current_diff_idx |-> upd.current_diff_idx]

\* the branch without its second update_diff_positions call
AfterLoad_NoRebuild(load) ==
  [offset_x |-> 0, offset_y |-> 0, current_sheet_idx |-> 0,
   raised |-> FALSE,
   diff_positions |-> load.diff_positions,
   current_diff_idx |-> load.current_diff_idx]

\* What the 'n', 'p' and 'v' branches do after load_data returned True:
\* viewport to the origin, first sheet, update_diff_positions once more.
AfterLoad(load) ==
  LET upd == UpdateDiffPositions(load.sheet_names, 0, load.left_data,
                                 load.current_diff_idx)
  IN  [offset_x |-> 0, offset_y |-> 0, current_sheet_idx |-> 0,
       raised |-> upd.raised,
       diff_positions |-> upd.diff_positions,
       current_diff_idx |-> upd.current_diff_idx]

\* the fields a load_data call and the code after it leave behind
FinishLoad(load) ==
  /\ load_ret' = load.ret
  /\ tmp_left' = load.tmp_left
  /\ sheet_names' = load.sheet_names
  /\ left_data' = load.left_data
  /\ right_data' = load.right_data
  /\ loaded_revs' = load.loaded_revs
  /\ IF load.ret = "True"
     THEN LET after == AfterLoad(load)
          IN  /\ offset_x' = after.offset_x
              /\ offset_y' = after.offset_y
              /\ current_sheet_idx' = after.current_sheet_idx
              /\ diff_positions' = after.diff_positions
              /\ current_diff_idx' = after.current_diff_idx
              /\ IF after.raised THEN pc' = "crashed" ELSE Redraw
     ELSE /\ diff_positions' = load.diff_positions
          /\ current_diff_idx' = load.current_diff_idx
          /\ UNCHANGED <<offset_x, offset_y, current_sheet_idx>>
          /\ IF load.ret = "False" THEN Redraw ELSE pc' = "crashed"

NoCommand ==
  /\ load_ret' = "none"
  /\ tmp_left' = {}
  /\ UNCHANGED <<session, offset_x, offset_y>>
  /\ Redraw

\* a forward guard that only asks for one more revision
CanStepForward_OffByOne(rev_idx, n) == rev_idx + 1 < n

\* the guard of 'n'
CanStepForward(rev_idx, n) == rev_idx + 2 < n

\* the guard of 'p'
CanStepBackward(rev_idx) == rev_idx > 0

\* the pair index 'n' moves to
StepForwardIdx(rev_idx) == rev_idx + 1

\* the pair index 'p' moves to
StepBackwardIdx(rev_idx) == rev_idx - 1

\* 'n' / 'N'
KeyN ==
  /\ pc = "loop"
  /\ key' = "n"
  /\ NavReset
  /\ UNCHANGED env
  /\ IF CanStepForward(current_rev_idx, Len(revisions))
     THEN /\ current_rev_idx' = StepForwardIdx(current_rev_idx)
          /\ revisions' = revisions
          /\ \E ok_a \in BOOLEAN, ok_b \in BOOLEAN :
               FinishLoad(LoadData(revisions, current_rev_idx',
                                   current_rev_idx' + 1, ok_a, ok_b))
     ELSE NoCommand

\* 'p' / 'P'
KeyP ==
  /\ pc = "loop"
  /\ key' = "p"
  /\ NavReset
  /\ UNCHANGED env
  /\ IF CanStepBackward(current_rev_idx)
     THEN /\ current_rev_idx' = StepBackwardIdx(current_rev_idx)
          /\ revisions' = revisions
          /\ \E ok_a \in BOOLEAN, ok_b \in BOOLEAN :
               FinishLoad(LoadData(revisions, current_rev_idx',
                                   current_rev_idx' + 1, ok_a, ok_b))
     ELSE NoCommand

\* get_version_input without its idx_a < idx_b test
GetVersionInput_NoOrderCheck(idx_a, idx_b, n) ==
  IF 0 <= idx_a /\ idx_a < n /\ 0 <= idx_b /\ idx_b < n
  THEN <<idx_a, idx_b>>
  ELSE << >>

\* get_version_input: the pair typed, or None
GetVersionInput(idx_a, idx_b, n) ==
  IF 0 <= idx_a /\ idx_a < n /\ 0 <= idx_b /\ idx_b < n /\ idx_a < idx_b
  THEN <<idx_a, idx_b>>
  ELSE << >>

\* what the user can type at the two prompts of get_version_input
TypedIndexes == -1..MaxRevs

\* 'v' / 'V' with idx_a and idx_b typed at the prompts
KeyVTyped(idx_a, idx_b) ==
  /\ pc = "loop"
  /\ key' = "v"
  /\ NavReset
  /\ UNCHANGED env
  /\ LET result == GetVersionInput(idx_a, idx_b, Len(revisions))
     IN  IF result # << >>
         THEN \E ok_a \in BOOLEAN, ok_b \in BOOLEAN :
                LET load == LoadData(revisions, result[1], result[2], ok_a, ok_b)
                IN  /\ current_rev_idx' =
                         IF load.ret = "True" THEN result[1] ELSE current_rev_idx
                    /\ revisions' = revisions
                    /\ FinishLoad(load)
         ELSE NoCommand

\* 'v' / 'V'
KeyV == \E idx_a \in TypedIndexes, idx_b \in TypedIndexes : KeyVTyped(idx_a, idx_b)

Next ==
  \/ Start
  \/ KeyQuit
  \/ KeyUp
  \/ KeyDown
  \/ KeyLeft
  \/ KeyRight
  \/ KeyTab
  \/ KeyNext
  \/ KeyPrev
  \/ KeyN
  \/ KeyP
  \/ KeyV

Spec == Init /\ [][Next]_vars

\* ------------------------------------------------------------ properties
TypeOK ==
  /\ pc \in {"start", "loop", "done", "fatal", "crashed"}
  /\ key \in {"", "q", "UP", "DOWN", "LEFT", "RIGHT", "TAB", "]", "[", "n", "p", "v"}
  /\ load_ret \in {"none", "True", "False", "IndexError"}
  /\ current_diff_idx \in Int
  /\ offset_x \in Int
  /\ offset_y \in Int

LoadKeys == {"n", "p", "v"}

JumpKeys == {"]", "["}

Unset == -1

\* the position at a Diff Index offset
PositionAt(idx) == diff_positions[idx + 1]

Offsets == 0..(Len(diff_positions) - 1)

\* the positions of a sheet whose cell carries changed = TRUE
ChangedPositions(sheet) ==
  {pos \in (0..(Len(sheet) - 1)) \X (0..(MaxOf(RowLens(sheet)) - 1)) :
     /\ pos[2] < Len(sheet[pos[1] + 1])
     /\ sheet[pos[1] + 1][pos[2] + 1].changed}

RowMajorBefore(p, q) == p[1] < q[1] \/ (p[1] = q[1] /\ p[2] < q[2])

\* C1: a step or select command whose load_data returned False leaves the
\* snapshots, the Sheet Name Set, the active sheet index, the Diff Index,
\* the cursor, the viewport and the pair index as they were.
C1_FailedLoadKeepsComparison ==
  [][(key' \in LoadKeys /\ load_ret' = "False")
       => UNCHANGED <<left_data, right_data, sheet_names, current_sheet_idx,
                      diff_positions, current_diff_idx, offset_x, offset_y,
                      current_rev_idx>>]_vars

\* C2: while the session lives (no rebuild was cut short by an exception
\* that ends run), the cursor is unset or a valid offset of the Diff Index,
\* and it is unset right after every command that rebuilt the Diff Index.
C2_CursorUnsetOrValid ==
  /\ load_ret # "IndexError"
       => current_diff_idx = Unset \/ current_diff_idx \in Offsets
  /\ (key = "TAB" \/ load_ret = "True") => current_diff_idx = Unset

\* a sheet switch found the cursor set and left it unset
C2_Witness ==
  /\ key = "TAB"
  /\ before.current_diff_idx >= 1
  /\ current_diff_idx = Unset
  /\ diff_positions # << >>

\* C3: after a switch-sheet command, and after a step or select command
\* whose load succeeded, the cursor is unset and the viewport is (0,0);
\* after the latter the first sheet is active.
C3_ResetOnSwitchAndLoad ==
  /\ (key = "TAB" \/ (key \in LoadKeys /\ load_ret = "True"))
       => current_diff_idx = Unset /\ offset_x = 0 /\ offset_y = 0
  /\ (key \in LoadKeys /\ load_ret = "True") => current_sheet_idx = 0

\* a successful load started with the cursor set, the viewport away from
\* the origin and a later sheet active
C3_Witness ==
  /\ key \in LoadKeys
  /\ load_ret = "True"
  /\ pc = "loop"
  /\ before.current_diff_idx >= 0
  /\ before.offset_y > 0
  /\ before.current_sheet_idx > 0

\* C4: whenever the command loop draws, the two snapshots cover exactly the
\* sheets of the Sheet Name Set, and the Diff Index lists exactly the changed
\* positions of the active sheet, in strictly increasing row-major order, so
\* its length is the number of changed cells.
C4_DiffIndexMatchesActiveSheet ==
  pc = "loop" =>
    /\ DOMAIN left_data = {sheet_names[i] : i \in 1..Len(sheet_names)}
    /\ DOMAIN right_data = DOMAIN left_data
    /\ current_sheet_idx \in 0..(Len(sheet_names) - 1)
    /\ {PositionAt(i) : i \in Offsets} = ChangedPositions(CurrentSheet)
    /\ \A i \in Offsets : \A j \in Offsets :
         i < j => RowMajorBefore(PositionAt(i), PositionAt(j))
    /\ Len(diff_positions) = Cardinality(ChangedPositions(CurrentSheet))

\* a load that started on a later sheet is drawn with the Diff Index of the
\* first sheet, which has several changed cells
C4_Witness ==
  /\ pc = "loop"
  /\ key \in LoadKeys
  /\ load_ret = "True"
  /\ before.current_sheet_idx > 0
  /\ Len(diff_positions) >= 2

\* the offsets whose position is at or after the viewport (oy, ox)
AtOrAfter(oy, ox) ==
  {i \in Offsets : PositionAt(i)[1] > oy
                   \/ (PositionAt(i)[1] = oy /\ PositionAt(i)[2] >= ox)}

\* the offsets whose position is strictly before the viewport (oy, ox)
StrictlyBefore(oy, ox) ==
  {i \in Offsets : PositionAt(i)[1] < oy
                   \/ (PositionAt(i)[1] = oy /\ PositionAt(i)[2] < ox)}

MinOf(S) == CHOOSE m \in S : \A x \in S : m <= x

\* C5: next() from the unset cursor with a non-empty Diff Index selects the
\* smallest offset whose position is at or after the viewport, and offset 0
\* when there is none.
C5_NextFromUnset ==
  (key = "]" /\ before.current_diff_idx = Unset /\ diff_positions # << >>) =>
    LET S == AtOrAfter(before.offset_y, before.offset_x)
    IN  current_diff_idx = IF S = {} THEN 0 ELSE MinOf(S)

\* next() from the unset cursor skipped the positions before the viewport
C5_Witness ==
  /\ key = "]"
  /\ before.current_diff_idx = Unset
  /\ current_diff_idx >= 1

\* next() from the unset cursor found nothing at or after the viewport
C5_WitnessWrap ==
  /\ key = "]"
  /\ before.current_diff_idx = Unset
  /\ diff_positions # << >>
  /\ AtOrAfter(before.offset_y, before.offset_x) = {}
  /\ current_diff_idx = 0

\* C6: prev() from the unset cursor with a non-empty Diff Index selects the
\* largest offset whose position is strictly before the viewport, and the
\* last offset when there is none.
C6_PrevFromUnset ==
  (key = "[" /\ before.current_diff_idx = Unset /\ diff_positions # << >>) =>
    LET S == StrictlyBefore(before.offset_y, before.offset_x)
    IN  current_diff_idx = IF S = {} THEN Len(diff_positions) - 1 ELSE MaxOf(S)

\* prev() from the unset cursor stopped before the end of the Diff Index
C6_Witness ==
  /\ key = "["
  /\ before.current_diff_idx = Unset
  /\ current_diff_idx >= 0
  /\ current_diff_idx < Len(diff_positions) - 1
  /\ StrictlyBefore(before.offset_y, before.offset_x) # {}

NoRepeat(seq) == \A i \in 1..Len(seq) : \A j \in 1..Len(seq) : i # j => seq[i] # seq[j]

\* C7: next() from AT(i) selects (i + 1) mod length; a run of next() calls
\* that began at AT(i), viewport moves in between or not, never reaches an
\* offset twice, and after `length` calls it has reached every offset and
\* is back at AT(i).
C7_NextCycles ==
  /\ (key = "]" /\ before.current_diff_idx # Unset /\ diff_positions # << >>) =>
       current_diff_idx = IF before.current_diff_idx = Len(diff_positions) - 1
                          THEN 0 ELSE before.current_diff_idx + 1
  /\ nav_start # -1 =>
       /\ Len(nav_visited) <= Len(diff_positions)
       /\ NoRepeat(nav_visited)
       /\ current_diff_idx = nav_visited[Len(nav_visited)]
       /\ Len(nav_visited) = Len(diff_positions) =>
            /\ {nav_visited[i] : i \in 1..Len(nav_visited)} = Offsets
            /\ current_diff_idx = nav_start

\* a run of next() calls went once round a Diff Index of three positions,
\* and the viewport had been moved off the cursor before the last call
C7_Witness ==
  /\ key = "]"
  /\ nav_start # -1
  /\ Len(diff_positions) >= 3
  /\ Len(nav_visited) = Len(diff_positions)
  /\ before.current_diff_idx # Unset
  /\ <<before.offset_y, before.offset_x>> # PositionAt(before.current_diff_idx)

\* C8: prev() from AT(i) selects i - 1, and the last offset when i = 0.
C8_PrevFromAt ==
  (key = "[" /\ before.current_diff_idx # Unset /\ diff_positions # << >>) =>
    /\ current_diff_idx \in Offsets
    /\ current_diff_idx = IF before.current_diff_idx = 0
                          THEN Len(diff_positions) - 1
                          ELSE before.current_diff_idx - 1

\* prev() wrapped from offset 0 to the last offset
C8_Witness ==
  /\ key = "["
  /\ before.current_diff_idx = 0
  /\ Len(diff_positions) >= 2
  /\ current_diff_idx = Len(diff_positions) - 1

\* C9 as stated: a prev() that directly follows a next() from the unset
\* cursor lands on the position that next() reached.
C9_RoundTripSamePosition ==
  (key = "[" /\ round_trip # -1) => current_diff_idx = round_trip

\* C9 as amended: a prev() that directly follows a next() from the unset
\* cursor lands on the position cyclically before the one that next()
\* reached, which is the same position only when the Diff Index has one.
C9_RoundTripStepsBack ==
  (key = "[" /\ round_trip # -1) =>
    /\ current_diff_idx = IF round_trip = 0 THEN Len(diff_positions) - 1
                          ELSE round_trip - 1
    /\ <<offset_y, offset_x>> = PositionAt(current_diff_idx)
    /\ (current_diff_idx = round_trip) = (Len(diff_positions) = 1)

\* next() from the unset cursor then prev(), in a Diff Index of several
\* positions
C9_Witness ==
  /\ key = "["
  /\ round_trip >= 1
  /\ Len(diff_positions) >= 2

\* C10: after a next() or prev() that leaves the cursor at an offset, the
\* viewport is the position stored at that offset.
C10_ViewportFollowsCursor ==
  (key \in JumpKeys /\ current_diff_idx # Unset) =>
    /\ offset_y = PositionAt(current_diff_idx)[1]
    /\ offset_x = PositionAt(current_diff_idx)[2]

\* a jump moved the viewport to a position off the diagonal
C10_Witness ==
  /\ key \in JumpKeys
  /\ current_diff_idx # Unset
  /\ <<offset_y, offset_x>> # <<before.offset_y, before.offset_x>>
  /\ offset_y # offset_x

\* C11: at every position of every loaded sheet the changed flag of the
\* new-side cell says whether the two values differ as texts, and the
\* old-side cell carries the same flag.
C11_ChangedIsTextInequality ==
  \A n \in DOMAIN left_data :
    \A r \in 1..Len(left_data[n]) :
      \A c \in 1..Len(left_data[n][r]) :
        /\ left_data[n][r][c].changed
             = (left_data[n][r][c].value # right_data[n][r][c].value)
        /\ right_data[n][r][c].changed = left_data[n][r][c].changed

\* a loaded sheet has a changed cell that is empty on one side, and an
\* unchanged cell
C11_Witness ==
  /\ pc = "loop"
  /\ \E n \in DOMAIN left_data :
       \E r \in 1..Len(left_data[n]) :
         \E c1 \in 1..Len(left_data[n][r]), c2 \in 1..Len(left_data[n][r]) :
           /\ left_data[n][r][c1].changed
           /\ right_data[n][r][c1].value = ""
           /\ ~left_data[n][r][c2].changed
           /\ left_data[n][r][c2].value # ""

\* the raw grids the loaded comparison was built from
RawNew(n) == DictGet(ReadFile(loaded_revs[1]), n)

RawOld(n) == DictGet(ReadFile(loaded_revs[2]), n)

\* a sheet of the new revision whose old side has no rows
NewOnly(n) ==
  /\ loaded_revs # << >>
  /\ n \in DOMAIN ReadFile(loaded_revs[1])
  /\ Len(RawOld(n)) = 0

ActiveSheetName == sheet_names[current_sheet_idx + 1]

\* the positions of an aligned sheet
Positions(sheet) ==
  {pos \in (1..Len(sheet)) \X (1..MaxOf(RowLens(sheet))) :
     pos[2] <= Len(sheet[pos[1]])}

\* C12 as stated: in a sheet that only the new revision has, every cell is
\* changed, and while that sheet is active the Diff Index has rows * cols
\* entries.
C12_NewOnlySheetFullyChanged ==
  \A n \in DOMAIN left_data :
    NewOnly(n) =>
      /\ \A pos \in Positions(left_data[n]) :
           left_data[n][pos[1]][pos[2]].changed
      /\ (pc = "loop" /\ ActiveSheetName = n) =>
           Len(diff_positions) = Len(RawNew(n)) * MaxOf(RowLens(RawNew(n)))

\* C12 as amended: in a sheet that only the new revision has, a cell is
\* changed exactly when its text is not empty, and while that sheet is
\* active the Diff Index has one entry per non-empty cell.
C12_NewOnlySheetNonEmptyChanged ==
  \A n \in DOMAIN left_data :
    NewOnly(n) =>
      /\ \A pos \in Positions(left_data[n]) :
           left_data[n][pos[1]][pos[2]].changed
             = (left_data[n][pos[1]][pos[2]].value # "")
      /\ (pc = "loop" /\ ActiveSheetName = n) =>
           Len(diff_positions) =
             Cardinality({pos \in Positions(left_data[n]) :
                            left_data[n][pos[1]][pos[2]].value # ""})

\* the active sheet exists only in the new revision and has both a filled
\* and an empty cell
C12_Witness ==
  /\ pc = "loop"
  /\ NewOnly(ActiveSheetName)
  /\ Len(diff_positions) >= 1
  /\ Len(diff_positions) < Cardinality(Positions(CurrentSheet))

\* a pair of valid offsets into the revision list, the first one smaller
ValidPair(a, b) ==
  /\ a \in 0..(Len(revisions) - 1)
  /\ b \in 0..(Len(revisions) - 1)
  /\ a < b

\* C13: get_version_input hands a typed pair on only when it is a pair of
\* valid offsets a < b, and a select command that got no pair from it
\* performs no load and leaves the comparison, the pair index, the cursor
\* and the viewport as they were; it does not end the session (the draw
\* that follows raises only where it would for any key: with a viewport
\* already at -1).
C13_InvalidPairRejected ==
  /\ [](\A a \in TypedIndexes : \A b \in TypedIndexes :
          ~ValidPair(a, b) => GetVersionInput(a, b, Len(revisions)) = << >>)
  /\ [][(key' = "v" /\ load_ret' = "none") =>
          /\ UNCHANGED <<session, offset_x, offset_y>>
          /\ tmp_left' = {}
          /\ pc' \in {"loop", "crashed"}
          /\ pc' = "crashed" => (offset_y < 0 \/ offset_x < 0)]_vars

\* a select command was rejected while a comparison with a set cursor was
\* shown, and the session goes on
C13_Witness ==
  /\ key = "v"
  /\ load_ret = "none"
  /\ pc = "loop"
  /\ current_diff_idx >= 1
  /\ before.current_diff_idx = current_diff_idx
  /\ Len(revisions) = MaxRevs

\* C14: once the session runs, 0 <= pair index and pair index + 1 <
\* revision count; 'n' is a no-op unless pair index + 2 < revision count and
\* otherwise moves the pair index by +1, 'p' is a no-op unless pair index > 0
\* and otherwise moves it by -1.
C14_PairIndexInBounds ==
  /\ [](pc \in {"loop", "done", "crashed"} =>
          /\ 0 <= current_rev_idx
          /\ current_rev_idx + 1 < Len(revisions))
  /\ [][key' = "n" =>
          IF current_rev_idx + 2 < Len(revisions)
          THEN current_rev_idx' = current_rev_idx + 1
          ELSE UNCHANGED <<session, offset_x, offset_y>> /\ load_ret' = "none"]_vars
  /\ [][key' = "p" =>
          IF current_rev_idx > 0
          THEN current_rev_idx' = current_rev_idx - 1
          ELSE UNCHANGED <<session, offset_x, offset_y>> /\ load_ret' = "none"]_vars

\* 'n' was pressed on the last pair of the history and did nothing
C14_Witness ==
  /\ key = "n"
  /\ load_ret = "none"
  /\ pc = "loop"
  /\ current_rev_idx > 0
  /\ current_rev_idx + 2 = Len(revisions)

\* C15: whenever the command loop draws, the two revisions named in the
\* header, revisions[pair index] and revisions[pair index + 1], are the
\* revisions the loaded snapshots were read from.
C15_ShownPairIsLoadedPair ==
  pc = "loop" =>
    <<revisions[current_rev_idx + 1], revisions[current_rev_idx + 2]>> = loaded_revs

\* the sheet indexes a run of sheet switches reached, without its start
TabReached == SubSeq(tab_run, 2, Len(tab_run))

\* C16: each switch-sheet command moves the active sheet index to the next
\* one, from the last sheet to the first; a run of consecutive switches
\* never reaches a sheet twice and after as many switches as there are
\* sheets it has reached every sheet and is back where it began; after each
\* switch the Diff Index lists the changed cells of the now active sheet.
C16_SwitchSheetCycles ==
  key = "TAB" =>
    /\ tab_run # << >>
    /\ current_sheet_idx \in 0..(Len(sheet_names) - 1)
    /\ tab_run[Len(tab_run)] = current_sheet_idx
    /\ \A i \in 2..Len(tab_run) :
         tab_run[i] = IF tab_run[i - 1] = Len(sheet_names) - 1
                      THEN 0 ELSE tab_run[i - 1] + 1
    /\ Len(TabReached) <= Len(sheet_names)
    /\ NoRepeat(TabReached)
    /\ Len(TabReached) = Len(sheet_names) =>
         /\ {TabReached[i] : i \in 1..Len(TabReached)} = 0..(Len(sheet_names) - 1)
         /\ current_sheet_idx = tab_run[1]
    /\ {PositionAt(i) : i \in Offsets} = ChangedPositions(CurrentSheet)
    /\ Len(diff_positions) = Cardinality(ChangedPositions(CurrentSheet))

\* three switches went once round three sheets, back to a sheet with
\* changed cells
C16_Witness ==
  /\ key = "TAB"
  /\ pc = "loop"
  /\ Len(sheet_names) >= 3
  /\ Len(TabReached) = Len(sheet_names)
  /\ diff_positions # << >>

\* C17: the session is ended as fatal only at startup, before any command,
\* with fewer than two revisions or a failed first load; after that only
\* the quit command ends it, no command makes it stop with an error, and
\* after every failed load it is still waiting for commands.
C17_OnlyStartupIsFatal ==
  /\ pc = "fatal" => (key = "" /\ (Len(revisions) < 2 \/ load_ret = "False"))
  /\ pc = "done" => key = "q"
  /\ pc # "crashed"
  /\ (key \in LoadKeys /\ load_ret = "False") => pc = "loop"

\* C18: when load_data has returned, with True or with False, none of the
\* temporary files that call exported still exists.
C18_NoTempFileLeft ==
  load_ret \in {"True", "False"} => tmp_left = {}

\* whether a raw grid has the position (row r, column c), counted from 1
Present(raw, r, c) == r <= Len(raw) /\ c <= Len(raw[r])

\* an aligned grid of max_rows x max_cols that holds the raw grid's values
\* and the empty text everywhere else
AlignedTo(grid, raw, max_rows, max_cols) ==
  /\ Len(grid) = max_rows
  /\ \A r \in 1..max_rows :
       /\ Len(grid[r]) = max_cols
       /\ \A c \in 1..max_cols :
            grid[r][c].value = IF Present(raw, r, c) THEN raw[r][c] ELSE ""

\* C19: for every sheet of the loaded comparison both aligned grids have
\* max_rows rows of max_cols cells each, max_rows being the larger row count
\* and max_cols the largest row length over both raw grids, and every
\* position a raw grid lacks (short row, missing row, missing sheet) holds
\* the empty text.
C19_AlignedGridShape ==
  loaded_revs # << >> =>
    /\ DOMAIN left_data = DOMAIN ReadFile(loaded_revs[1]) \cup DOMAIN ReadFile(loaded_revs[2])
    /\ DOMAIN right_data = DOMAIN left_data
    /\ \A n \in DOMAIN left_data :
         LET max_rows == IF Len(RawNew(n)) >= Len(RawOld(n))
                         THEN Len(RawNew(n)) ELSE Len(RawOld(n))
             max_cols == MaxOf(RowLens(RawNew(n)) \cup RowLens(RawOld(n)))
         IN  /\ AlignedTo(left_data[n], RawNew(n), max_rows, max_cols)
             /\ AlignedTo(right_data[n], RawOld(n), max_rows, max_cols)

\* a loaded comparison with a padded short row, a sheet whose one side has
\* fewer rows, and a sheet that only one revision has
C19_Witness ==
  /\ pc = "loop"
  /\ loaded_revs # << >>
  /\ \E n \in DOMAIN left_data : \E r \in 1..Len(RawNew(n)) :
       Len(RawNew(n)[r]) < Len(left_data[n][r])
  /\ \E n \in DOMAIN ReadFile(loaded_revs[1]) \cap DOMAIN ReadFile(loaded_revs[2]) :
       Len(RawNew(n)) # Len(RawOld(n))
  /\ \E n \in DOMAIN left_data :
       /\ n \notin DOMAIN ReadFile(loaded_revs[1]) \cap DOMAIN ReadFile(loaded_revs[2])
       /\ Len(left_data[n]) > 0

\* C20: with an empty Diff Index the next and prev commands change nothing:
\* the cursor is UNSET before and after, and the viewport, the active sheet
\* and the loaded snapshots stay as they were.
C20_EmptyIndexJumpIsNoOp ==
  [][(key' \in JumpKeys /\ diff_positions = << >>) =>
       /\ current_diff_idx = Unset
       /\ current_diff_idx' = Unset
       /\ UNCHANGED <<offset_x, offset_y, current_sheet_idx, sheet_names,
                      left_data, right_data, diff_positions, revisions,
                      current_rev_idx, loaded_revs>>]_vars

\* a next or prev command was given on a sheet without changed cells
C20_Witness ==
  /\ key \in JumpKeys
  /\ pc = "loop"
  /\ sheet_names # << >>
  /\ diff_positions = << >>
  /\ before.current_sheet_idx = current_sheet_idx
  /\ before.current_diff_idx = Unset

MoveKeys == {"UP", "DOWN", "LEFT", "RIGHT"}

\* C21: a move-viewport command changes the viewport only: the cursor, the
\* Diff Index, the active sheet and the snapshots stay as they were.  So a
\* next or prev command that follows a move with the cursor at offset i goes
\* to offset i + 1 or i - 1 (wrapping) of the same Diff Index, wherever the
\* move left the viewport.
C21_MoveKeepsCursor ==
  [][/\ key' \in MoveKeys =>
          /\ UNCHANGED session
          /\ load_ret' = "none"
     /\ (key \in MoveKeys /\ key' \in JumpKeys /\ current_diff_idx # Unset) =>
          /\ diff_positions' = diff_positions
          /\ current_diff_idx \in Offsets
          /\ current_diff_idx' =
               IF key' = "]"
               THEN (IF current_diff_idx = Len(diff_positions) - 1
                     THEN 0 ELSE current_diff_idx + 1)
               ELSE (IF current_diff_idx = 0
                     THEN Len(diff_positions) - 1 ELSE current_diff_idx - 1)]_vars

\* next() ran with the cursor at an offset while a move had taken the
\* viewport off that offset's position, to a place from which the viewport
\* test would have chosen another target
C21_Witness ==
  /\ key = "]"
  /\ pc = "loop"
  /\ before.current_diff_idx # Unset
  /\ Len(diff_positions) >= 2
  /\ <<before.offset_y, before.offset_x>> # PositionAt(before.current_diff_idx)
  /\ NextFromUnset(diff_positions, before.offset_y, before.offset_x) # current_diff_idx

\* C22: whenever the active sheet index selects a sheet it is an offset of
\* the current Sheet Name Set: update_diff_positions inside load_data never
\* fails to find the sheet, and at every draw and viewport move the index is
\* within the Sheet Name Set.
C22_SheetIndexValidWhenUsed ==
  /\ load_ret # "IndexError"
  /\ pc = "loop" => current_sheet_idx \in 0..(Len(sheet_names) - 1)

\* C23: the viewport row and column are never negative, and on an active
\* sheet with cells they lie inside its aligned grid; this also on an
\* active sheet with 0 rows or 0 columns.
C23_ViewportInsideGrid ==
  pc \in {"loop", "crashed"} /\ load_ret # "IndexError" /\ sheet_names # << >> =>
    /\ offset_y >= 0
    /\ offset_x >= 0
    /\ Len(CurrentSheet) > 0 => offset_y < Len(CurrentSheet)
    /\ MaxOf(RowLens(CurrentSheet)) > 0 => offset_x < MaxOf(RowLens(CurrentSheet))

====
